---- MODULE Spec2Model ----
(***************************************************************************)
(* Team-composition engine of AYSTeamBuilder (teambuilder/team_builder.py) *)
(* as a state machine.                                                     *)
(*                                                                         *)
(* Three specifications share the variables:                               *)
(*   Spec      assign_players_to_teams, one step per loop iteration and    *)
(*             per add_player_to_team call;                                *)
(*   SpecSeed  seed_teams_with_coaches: the reciprocal pass, then one step *)
(*             per head of the fallback pass;                              *)
(*   SpecSel   find_best_team_for_player applied to drawn team lists.      *)
(*                                                                         *)
(* Conventions.  Python None is the value None (0); player ids, coach ids  *)
(* and sponsor ids are positive integers, so that "if x:" on an id is      *)
(* x # None.  The player mapping is the sequence players, in dict order,   *)
(* keyed by position: players[i].player_id = i.  Skill scores are counted  *)
(* in integer units (the scorer rounds to 4 decimals); a run adds them in  *)
(* list order, as a recomputation does.  Every player entering the         *)
(* pipeline carries a score (cli.py scores the whole pool first), and      *)
(* every coach has a non-blank full name, so that the team name and id,    *)
(* which nothing reads back, are left out of the Team record.              *)
(***************************************************************************)
EXTENDS Integers, Sequences, FiniteSets, TLC

\* ---- bounds of the model ----
MaxPlayers == 3
MaxTeams == 2
MaxHeads == 2
MaxAssistants == 2
MaxSize == 2

\* Python None
None == 0

\* ---- value domains of the drawn inputs ----
SkillScores == {1, 2}
SponsorIds == {1, 2}
\* player ids a head coach, and an assistant, can name as associated player
HeadAssocIds == {1}
AssistantAssocIds == {1, 2}

VARIABLES
    teams,                 \* List[Team]
    players,               \* Dict[str, Player], in insertion order
    assigned,              \* set of player ids (assign_players_to_teams)
    unassigned,            \* List[Player] (assign_players_to_teams)
    pc,                    \* position of the running function
    ti,                    \* index of the team the current loop is at
    ci,                    \* coach slot within the team: 1 head, 2 assistant
    gi,                    \* index into unassigned of the greedy loop
    sel_player,            \* the player handed to find_best_team_for_player
    best_team,             \* index of the team the selector returned, or None
    head_coaches,          \* seed_teams_with_coaches argument
    assistant_coaches,     \* seed_teams_with_coaches argument
    used_heads,            \* seed_teams_with_coaches local
    used_assistants,       \* seed_teams_with_coaches local
    unpaired_heads,        \* seed_teams_with_coaches local
    available_assistants,  \* seed_teams_with_coaches local
    hi,                    \* index into unpaired_heads of the fallback loop
    min_team_size,         \* fill_teams_to_minimum argument
    target_team_size,      \* assign_players_to_teams argument
    sibling_groups,        \* assign_sibling_groups_to_teams local
    si,                    \* index into sibling_groups of the group loop
    score_players,         \* the population handed to the scorer
    normalization_context, \* build_normalization_context result, or None
    skill_score            \* calculate_player_skill_score result per player

vars == <<teams, players, assigned, unassigned, pc, ti, ci, gi, sel_player,
          best_team, head_coaches, assistant_coaches, used_heads,
          used_assistants, unpaired_heads, available_assistants, hi,
          min_team_size, target_team_size, sibling_groups, si,
          score_players, normalization_context, skill_score>>

pipeVars == <<teams, players, assigned, unassigned, ti, ci, gi>>
selVars == <<sel_player, best_team>>
seedVars == <<head_coaches, assistant_coaches, used_heads, used_assistants,
              unpaired_heads, available_assistants, hi>>
argVars == <<min_team_size, target_team_size>>
sibVars == <<sibling_groups, si>>
scoreVars == <<score_players, normalization_context, skill_score>>

\* ---- data model (models.py) ----
Player(id, score, sponsor) ==
    [player_id |-> id, skill_score |-> score, sponsor_id |-> sponsor]

Coach(id, assoc, pair) ==
    [coach_id |-> id, associated_player_id |-> assoc, pair_id |-> pair]

\* An absent (None) player or coach is the record whose id is None.
NoPlayer == Player(None, None, None)
NoCoach == Coach(None, None, None)

\* a Team as its constructor leaves it: no players, no sponsor, score 0
Team(head, assistant) ==
    [head_coach |-> head, assistant_coach |-> assistant,
     players |-> <<>>, sponsor_id |-> None, total_score |-> 0]

\* ---- helpers ----
RECURSIVE SumScores(_)
SumScores(ps) ==
    IF ps = <<>> THEN 0
    ELSE ps[1].skill_score + SumScores(Tail(ps))

\* a slip in pop: the player stays in the list
PopKeepsPlayer(s, i) == s

\* list.pop(i), the list that is left (i is 1-based here)
Pop(s, i) == [k \in 1..(Len(s) - 1) |-> IF k < i THEN s[k] ELSE s[k + 1]]

\* every sequence of length 0..n over S
SeqsUpTo(S, n) == UNION {[1..k -> S] : k \in 0..n}

\* a slip in add_player_to_team: the running total is not updated
add_player_to_team_no_score(player, team) ==
    [team EXCEPT
        !.players = Append(@, player),
        !.sponsor_id = IF player.sponsor_id # None THEN player.sponsor_id ELSE @]

\* a slip in add_player_to_team: a team that has a sponsor keeps it
add_player_to_team_first_sponsor(player, team) ==
    [team EXCEPT
        !.players = Append(@, player),
        !.sponsor_id = IF player.sponsor_id # None /\ @ = None
                       THEN player.sponsor_id ELSE @,
        !.total_score = IF player.skill_score # None
                        THEN @ + player.skill_score ELSE @]

\* ---- add_player_to_team (team_builder.py:69-75) ----
\* A score of 0 and an absent score both leave total_score as it is.
add_player_to_team(player, team) ==
    [team EXCEPT
        !.players = Append(@, player),
        !.sponsor_id = IF player.sponsor_id # None THEN player.sponsor_id ELSE @,
        !.total_score = IF player.skill_score # None
                        THEN @ + player.skill_score ELSE @]

\* a slip in the scan: the member count is not compared
RECURSIVE ScanTeamsNoSize(_, _, _, _)
ScanTeamsNoSize(player, ts, i, st) ==
    IF i > Len(ts) THEN st
    ELSE
        LET team == ts[i]
            score == team.total_score
        IN  IF player.sponsor_id # None /\ team.sponsor_id # None
            THEN ScanTeamsNoSize(player, ts, i + 1, st)
            ELSE IF ~st.has_best \/ score < st.best_score
            THEN ScanTeamsNoSize(player, ts, i + 1,
                     [has_best |-> TRUE, best_score |-> score,
                      best_size |-> Len(team.players), candidates |-> <<i>>])
            ELSE IF score = st.best_score
            THEN ScanTeamsNoSize(player, ts, i + 1,
                     [st EXCEPT !.candidates = Append(@, i)])
            ELSE ScanTeamsNoSize(player, ts, i + 1, st)

\* a slip in the scan: sponsor-committed teams are not skipped
RECURSIVE ScanTeamsNoSkip(_, _, _, _)
ScanTeamsNoSkip(player, ts, i, st) ==
    IF i > Len(ts) THEN st
    ELSE
        LET team == ts[i]
            score == team.total_score
            size == Len(team.players)
        IN  IF \/ ~st.has_best
               \/ score < st.best_score
               \/ (score = st.best_score /\ size < st.best_size)
            THEN ScanTeamsNoSkip(player, ts, i + 1,
                     [has_best |-> TRUE, best_score |-> score,
                      best_size |-> size, candidates |-> <<i>>])
            ELSE IF score = st.best_score /\ size = st.best_size
            THEN ScanTeamsNoSkip(player, ts, i + 1,
                     [st EXCEPT !.candidates = Append(@, i)])
            ELSE ScanTeamsNoSkip(player, ts, i + 1, st)

\* ---- find_best_team_for_player (team_builder.py:115-140) ----
\* The scan of lines 123-137 from team i on; st holds best_score, best_size
\* and candidates (team indices), has_best being "best_score is not None".
RECURSIVE ScanTeams(_, _, _, _)
ScanTeams(player, ts, i, st) ==
    IF i > Len(ts) THEN st
    ELSE
        LET team == ts[i]
            score == team.total_score
            size == Len(team.players)
        IN  IF player.sponsor_id # None /\ team.sponsor_id # None
            THEN ScanTeams(player, ts, i + 1, st)
            ELSE IF \/ ~st.has_best
                    \/ score < st.best_score
                    \/ (score = st.best_score /\ size < st.best_size)
            THEN ScanTeams(player, ts, i + 1,
                     [has_best |-> TRUE, best_score |-> score,
                      best_size |-> size, candidates |-> <<i>>])
            ELSE IF score = st.best_score /\ size = st.best_size
            THEN ScanTeams(player, ts, i + 1,
                     [st EXCEPT !.candidates = Append(@, i)])
            ELSE ScanTeams(player, ts, i + 1, st)

ScanStart ==
    [has_best |-> FALSE, best_score |-> 0, best_size |-> 0, candidates |-> <<>>]

\* The list random.choice draws from (lines 138-140), as team indices.
Candidates(player, ts) ==
    LET found == ScanTeams(player, ts, 1, ScanStart).candidates
    IN  IF found = <<>> THEN [k \in 1..Len(ts) |-> k] ELSE found

\* The teams random.choice can return; empty when it raises IndexError.
find_best_team_for_player(player, ts) ==
    {Candidates(player, ts)[k] : k \in 1..Len(Candidates(player, ts))}

\* ---- list.sort(key=skill_score, reverse=True): stable, descending ----
RECURSIVE InsertDesc(_, _)
InsertDesc(sorted, p) ==
    IF sorted = <<>> THEN <<p>>
    ELSE IF sorted[Len(sorted)].skill_score >= p.skill_score
         THEN Append(sorted, p)
         ELSE Append(InsertDesc(SubSeq(sorted, 1, Len(sorted) - 1), p),
                     sorted[Len(sorted)])

\* a slip at line 97: the pool is left in the order it has
SortBySkillMissing(s) == s

RECURSIVE SortBySkillDesc(_)
SortBySkillDesc(s) ==
    IF s = <<>> THEN <<>>
    ELSE InsertDesc(SortBySkillDesc(SubSeq(s, 1, Len(s) - 1)), s[Len(s)])

\* min_team_size as assign_players_to_teams passes it (team_builder.py:112)
MinTeamSize == 2

\* ======================================================================
\* assign_players_to_teams (team_builder.py:102-113)
\* ======================================================================

\* The players a run can be handed: ids 1..n in dict order, each scored.
PlayerMappings ==
    UNION {
        {m \in [1..n -> [player_id : 1..n, skill_score : SkillScores,
                         sponsor_id : {None} \cup SponsorIds]] :
            \A i \in 1..n : m[i].player_id = i}
        : n \in 0..MaxPlayers}

\* Team shells as the seeder leaves them.  Only associated_player_id of a
\* coach is read here; an id above Len(players) is not in the mapping.  A
\* coach that names no player is drawn as a head, one that names player 2
\* as an assistant.
TeamShells ==
    LET heads == {Coach(1, a, None) : a \in {None} \cup HeadAssocIds}
        assistants == {NoCoach} \cup
                      {Coach(2, a, None) : a \in AssistantAssocIds}
    IN  SeqsUpTo({Team(h, a) : h \in heads, a \in assistants}, MaxTeams)

IdleSeed ==
    /\ head_coaches = <<>>
    /\ assistant_coaches = <<>>
    /\ used_heads = {}
    /\ used_assistants = {}
    /\ unpaired_heads = <<>>
    /\ available_assistants = <<>>
    /\ hi = 1

IdleSiblings ==
    /\ sibling_groups = <<>>
    /\ si = 1

IdleScoring ==
    /\ score_players = <<>>
    /\ normalization_context = None
    /\ skill_score = <<>>

\* the arguments as assign_players_to_teams passes them on (line 112)
DefaultArgs ==
    /\ min_team_size = MinTeamSize
    /\ target_team_size = MinTeamSize

\* line 109: assigned = set(), about to enter the coach-affinity pass
Init ==
    /\ teams \in TeamShells
    /\ players \in PlayerMappings
    /\ assigned = {}
    /\ unassigned = <<>>
    /\ pc = "coach"
    /\ ti = 1
    /\ ci = 1
    /\ gi = 1
    /\ sel_player = NoPlayer
    /\ best_team = None
    /\ IdleSeed
    /\ DefaultArgs
    /\ IdleSiblings
    /\ IdleScoring

\* a slip at line 111: the players already assigned are not filtered out
UnassignedUnfiltered(ps, done) == ps

\* [p for pid, p in players.items() if pid not in assigned] (line 111)
Unassigned(ps, done) == SelectSeq(ps, LAMBDA p : p.player_id \notin done)

\* a slip in the lookup: the first player of the mapping, whatever the id
PlayersGetFirst(pid) == IF players # <<>> THEN players[1] ELSE NoPlayer

\* players.get(pid): the player, or None
PlayersGet(pid) == IF pid \in 1..Len(players) THEN players[pid] ELSE NoPlayer

\* One iteration of the inner loop of assign_coach_associated_players
\* (lines 79-85): coach slot ci of team ti.
assign_coach_associated_players ==
    /\ pc = "coach"
    /\ ti <= Len(teams)
    /\ LET team == teams[ti]
           coach == IF ci = 1 THEN team.head_coach ELSE team.assistant_coach
           player == IF coach # NoCoach /\ coach.associated_player_id # None
                     THEN PlayersGet(coach.associated_player_id)
                     ELSE NoPlayer
       IN  IF player # NoPlayer /\ player.player_id \notin assigned
           THEN /\ teams' = [teams EXCEPT ![ti] = add_player_to_team(player, team)]
                /\ assigned' = assigned \cup {player.player_id}
           ELSE UNCHANGED <<teams, assigned>>
    /\ IF ci = 1 THEN ci' = 2 /\ ti' = ti
                 ELSE ci' = 1 /\ ti' = ti + 1
    /\ UNCHANGED <<players, unassigned, pc, gi, selVars, seedVars, argVars, sibVars,
                   scoreVars>>

\* line 111: unassigned = [p for pid, p in players.items() if pid not in assigned]
CollectUnassigned ==
    /\ pc = "coach"
    /\ ti > Len(teams)
    /\ unassigned' = Unassigned(players, assigned)
    /\ pc' = "fill"
    /\ ti' = 1
    /\ UNCHANGED <<teams, players, assigned, ci, gi, selVars, seedVars, argVars, sibVars,
                   scoreVars>>

\* a slip in the while condition: the member count is not looked at
FillConditionAnySize(team, pool, minimum) == pool # <<>>

\* a slip in the while condition: the threshold is 1, whatever the argument
FillConditionFixedOne(team, pool, minimum) ==
    Len(team.players) < 1 /\ pool # <<>>

\* a slip in the while condition: a team at min_team_size still takes one
FillConditionOffByOne(team, pool, minimum) ==
    Len(team.players) <= minimum /\ pool # <<>>

\* line 90: while len(team.players) < min_team_size and unassigned
FillCondition(team, pool, minimum) ==
    Len(team.players) < minimum /\ pool # <<>>

\* fill_teams_to_minimum (lines 87-93): one iteration of the while loop,
\* random.randint picking any index of the pool.
fill_teams_to_minimum ==
    /\ pc = "fill"
    /\ ti <= Len(teams)
    /\ FillCondition(teams[ti], unassigned, min_team_size)
    /\ \E idx \in 1..Len(unassigned) :
        /\ teams' = [teams EXCEPT ![ti] = add_player_to_team(unassigned[idx], @)]
        /\ unassigned' = Pop(unassigned, idx)
    /\ UNCHANGED <<players, assigned, pc, ti, ci, gi, selVars, seedVars, argVars, sibVars,
                   scoreVars>>

\* the while condition of line 90 fails: on to the next team
FillNextTeam ==
    /\ pc = "fill"
    /\ ti <= Len(teams)
    /\ ~FillCondition(teams[ti], unassigned, min_team_size)
    /\ ti' = ti + 1
    /\ UNCHANGED <<teams, players, assigned, unassigned, pc, ci, gi, selVars,
                   seedVars, argVars, sibVars,
                   scoreVars>>

\* assign_remaining_players_by_skill, line 97: the pool is sorted by
\* descending skill once the fill pass has returned.
SortRemaining ==
    /\ pc = "fill"
    /\ ti > Len(teams)
    /\ unassigned' = SortBySkillDesc(unassigned)
    /\ pc' = "greedy"
    /\ gi' = 1
    /\ UNCHANGED <<teams, players, assigned, ti, ci, selVars, seedVars, argVars, sibVars,
                   scoreVars>>

\* assign_remaining_players_by_skill, lines 98-100: one iteration.  The
\* loop reads the pool without removing from it.
assign_remaining_players_by_skill ==
    /\ pc = "greedy"
    /\ gi <= Len(unassigned)
    /\ LET player == unassigned[gi]
       IN  /\ sel_player' = player
           /\ IF find_best_team_for_player(player, teams) = {}
              THEN \* random.choice([]) raises IndexError
                   /\ pc' = "raised"
                   /\ UNCHANGED <<teams, best_team, gi>>
              ELSE /\ \E b \in find_best_team_for_player(player, teams) :
                        /\ best_team' = b
                        /\ teams' = [teams EXCEPT
                                        ![b] = add_player_to_team(player, @)]
                   /\ gi' = gi + 1
                   /\ pc' = pc
    /\ UNCHANGED <<players, assigned, unassigned, ti, ci, seedVars, argVars, sibVars,
                   scoreVars>>

\* assign_players_to_teams returns
Return ==
    /\ pc = "greedy"
    /\ gi > Len(unassigned)
    /\ pc' = "done"
    /\ UNCHANGED <<pipeVars, selVars, seedVars, argVars, sibVars,
                   scoreVars>>

Next ==
    \/ assign_coach_associated_players
    \/ CollectUnassigned
    \/ fill_teams_to_minimum
    \/ FillNextTeam
    \/ SortRemaining
    \/ assign_remaining_players_by_skill
    \/ Return

Spec == Init /\ [][Next]_vars

\* ======================================================================
\* find_best_team_for_player on its own (SpecSel)
\* ======================================================================

\* totals a drawn team can carry
SelScores == {0, 1, 2}

\* Teams as a caller can hand them over: any total, any member count, any
\* sponsor (the selector reads nothing else of a team).
SelTeams ==
    LET members == {[k \in 1..n |-> Player(k, None, None)] : n \in 0..MaxSize}
        shell == Team(Coach(1, None, None), NoCoach)
    IN  SeqsUpTo({[shell EXCEPT !.players = m, !.sponsor_id = sp,
                                !.total_score = sc] :
                     m \in members, sp \in {None} \cup SponsorIds,
                     sc \in SelScores},
                 MaxTeams)

InitSel ==
    /\ teams \in SelTeams
    /\ sel_player \in {Player(1, 1, sp) : sp \in {None} \cup SponsorIds}
    /\ best_team = None
    /\ pc = "select"
    /\ players = <<>>
    /\ assigned = {}
    /\ unassigned = <<>>
    /\ ti = 1
    /\ ci = 1
    /\ gi = 1
    /\ IdleSeed
    /\ DefaultArgs
    /\ IdleSiblings
    /\ IdleScoring

\* one call of find_best_team_for_player(sel_player, teams)
SelectBestTeam ==
    /\ pc = "select"
    /\ IF find_best_team_for_player(sel_player, teams) = {}
       THEN \* random.choice([]) raises IndexError
            /\ pc' = "raised"
            /\ UNCHANGED best_team
       ELSE /\ best_team' \in find_best_team_for_player(sel_player, teams)
            /\ pc' = "selected"
    /\ UNCHANGED <<pipeVars, sel_player, seedVars, argVars, sibVars,
                   scoreVars>>

NextSel == SelectBestTeam

SpecSel == InitSel /\ [][NextSel]_vars

\* ======================================================================
\* seed_teams_with_coaches (team_builder.py:13-67), SpecSeed
\* ======================================================================

\* Coach ids are only ever compared for equality, so the heads are drawn
\* with ids 1..n in list order and the assistants with the ids after
\* MaxHeads in list order.  A pair id can name a coach that is not in the
\* other list; only the presence of an associated player matters here.
AssistantIdBase == MaxHeads
HeadPairIds == {None} \cup {AssistantIdBase + k : k \in 1..MaxAssistants}
AssistantPairIds == {None} \cup (1..MaxHeads)
SeedAssocIds == {None, 1}

HeadLists ==
    UNION {
        {l \in [1..n -> [coach_id : 1..n, associated_player_id : SeedAssocIds,
                         pair_id : HeadPairIds]] :
            \A k \in 1..n : l[k].coach_id = k}
        : n \in 0..MaxHeads}

AssistantLists ==
    UNION {
        {l \in [1..n -> [coach_id : {AssistantIdBase + k : k \in 1..n},
                         associated_player_id : SeedAssocIds,
                         pair_id : AssistantPairIds]] :
            \A k \in 1..n : l[k].coach_id = AssistantIdBase + k}
        : n \in 0..MaxAssistants}

\* the first of the indices in found (where a scanning loop breaks), or 0
FirstIndex(found) ==
    IF found = {} THEN 0
    ELSE CHOOSE k \in found : \A j \in found : k <= j

\* every order random.shuffle can leave the list in
Shuffles(s) ==
    {[k \in 1..Len(s) |-> s[f[k]]] :
        f \in {g \in [1..Len(s) -> 1..Len(s)] :
                  \A a, b \in 1..Len(s) : g[a] = g[b] => a = b}}

\* a slip in the reciprocal pass: the assistant's pair id is compared with
\* the head's pair id instead of the head's coach id
RECURSIVE ReciprocalPairsWrongField(_, _, _, _)
ReciprocalPairsWrongField(heads, assistants, i, acc) ==
    IF i > Len(heads) THEN acc
    ELSE
        LET head == heads[i]
            m == IF head.pair_id # None
                 THEN FirstIndex({k \in 1..Len(assistants) :
                          assistants[k].coach_id = head.pair_id
                          /\ assistants[k].pair_id = head.pair_id})
                 ELSE 0
        IN  IF m # 0
            THEN ReciprocalPairsWrongField(heads, assistants, i + 1,
                     [teams |-> Append(acc.teams, Team(head, assistants[m])),
                      used_heads |-> acc.used_heads \cup {head.coach_id},
                      used_assistants |->
                          acc.used_assistants \cup {assistants[m].coach_id}])
            ELSE ReciprocalPairsWrongField(heads, assistants, i + 1, acc)

\* a slip in the reciprocal pass: the matched head is not recorded as used
RECURSIVE ReciprocalPairsHeadNotUsed(_, _, _, _)
ReciprocalPairsHeadNotUsed(heads, assistants, i, acc) ==
    IF i > Len(heads) THEN acc
    ELSE
        LET head == heads[i]
            m == IF head.pair_id # None
                 THEN FirstIndex({k \in 1..Len(assistants) :
                          assistants[k].coach_id = head.pair_id
                          /\ assistants[k].pair_id = head.coach_id})
                 ELSE 0
        IN  IF m # 0
            THEN ReciprocalPairsHeadNotUsed(heads, assistants, i + 1,
                     [teams |-> Append(acc.teams, Team(head, assistants[m])),
                      used_heads |-> acc.used_heads,
                      used_assistants |->
                          acc.used_assistants \cup {assistants[m].coach_id}])
            ELSE ReciprocalPairsHeadNotUsed(heads, assistants, i + 1, acc)

\* a slip in the reciprocal pass: the matched assistant is not recorded as
\* used
RECURSIVE ReciprocalPairsAssistantNotUsed(_, _, _, _)
ReciprocalPairsAssistantNotUsed(heads, assistants, i, acc) ==
    IF i > Len(heads) THEN acc
    ELSE
        LET head == heads[i]
            m == IF head.pair_id # None
                 THEN FirstIndex({k \in 1..Len(assistants) :
                          assistants[k].coach_id = head.pair_id
                          /\ assistants[k].pair_id = head.coach_id})
                 ELSE 0
        IN  IF m # 0
            THEN ReciprocalPairsAssistantNotUsed(heads, assistants, i + 1,
                     [teams |-> Append(acc.teams, Team(head, assistants[m])),
                      used_heads |-> acc.used_heads \cup {head.coach_id},
                      used_assistants |-> acc.used_assistants])
            ELSE ReciprocalPairsAssistantNotUsed(heads, assistants, i + 1, acc)

\* Lines 19-33 from head i on: acc holds teams, used_heads, used_assistants.
\* The inner loop stops at the first assistant that names the head back.
RECURSIVE ReciprocalPairs(_, _, _, _)
ReciprocalPairs(heads, assistants, i, acc) ==
    IF i > Len(heads) THEN acc
    ELSE
        LET head == heads[i]
            m == IF head.pair_id # None
                 THEN FirstIndex({k \in 1..Len(assistants) :
                          assistants[k].coach_id = head.pair_id
                          /\ assistants[k].pair_id = head.coach_id})
                 ELSE 0
        IN  IF m # 0
            THEN ReciprocalPairs(heads, assistants, i + 1,
                     [teams |-> Append(acc.teams, Team(head, assistants[m])),
                      used_heads |-> acc.used_heads \cup {head.coach_id},
                      used_assistants |->
                          acc.used_assistants \cup {assistants[m].coach_id}])
            ELSE ReciprocalPairs(heads, assistants, i + 1, acc)

\* a slip in the fallback pass: the first shuffled assistant is always taken
FallbackChoiceFirst(head, avail) == IF avail = <<>> THEN 0 ELSE 1

\* a slip in the fallback pass: the pop(0) of line 56 is missing, a head
\* without a preferred assistant stays solo
FallbackChoiceNoDefault(head, avail) ==
    IF avail = <<>> THEN 0
    ELSE
        LET first == IF head.associated_player_id = None
                     THEN FirstIndex({k \in 1..Len(avail) :
                                     avail[k].associated_player_id # None})
                     ELSE 0
        IN  IF first = 0 /\ head.associated_player_id # None
            THEN FirstIndex({k \in 1..Len(avail) :
                                avail[k].associated_player_id = None})
            ELSE first

\* Lines 41-56 for one head: the index in avail of the assistant it gets,
\* or 0 when avail is empty.
FallbackChoice(head, avail) ==
    IF avail = <<>> THEN 0
    ELSE
        LET first == IF head.associated_player_id = None
                     THEN FirstIndex({k \in 1..Len(avail) :
                                     avail[k].associated_player_id # None})
                     ELSE 0
            second == IF first = 0 /\ head.associated_player_id # None
                      THEN FirstIndex({k \in 1..Len(avail) :
                                      avail[k].associated_player_id = None})
                      ELSE first
        IN  IF second = 0 THEN 1 ELSE second

InitSeed ==
    /\ head_coaches \in HeadLists
    /\ assistant_coaches \in AssistantLists
    /\ teams = <<>>
    /\ used_heads = {}
    /\ used_assistants = {}
    /\ unpaired_heads = <<>>
    /\ available_assistants = <<>>
    /\ hi = 1
    /\ pc = "seed"
    /\ players = <<>>
    /\ assigned = {}
    /\ unassigned = <<>>
    /\ ti = 1
    /\ ci = 1
    /\ gi = 1
    /\ sel_player = NoPlayer
    /\ best_team = None
    /\ DefaultArgs
    /\ IdleSiblings
    /\ IdleScoring

\* lines 15-37: the reciprocal pass, then the heads and assistants left
\* over, the assistants shuffled
SeedReciprocalPass ==
    /\ pc = "seed"
    /\ LET r == ReciprocalPairs(head_coaches, assistant_coaches, 1,
                    [teams |-> <<>>, used_heads |-> {},
                     used_assistants |-> {}])
       IN  /\ teams' = r.teams
           /\ used_heads' = r.used_heads
           /\ used_assistants' = r.used_assistants
           /\ unpaired_heads' =
                  SelectSeq(head_coaches,
                            LAMBDA h : h.coach_id \notin r.used_heads)
           /\ available_assistants' \in
                  Shuffles(SelectSeq(assistant_coaches,
                               LAMBDA a : a.coach_id \notin r.used_assistants))
    /\ pc' = "fallback"
    /\ hi' = 1
    /\ UNCHANGED <<players, assigned, unassigned, ti, ci, gi, selVars, argVars, sibVars, scoreVars,
                   head_coaches, assistant_coaches>>

\* lines 39-66: one iteration of the loop over unpaired_heads
SeedFallbackHead ==
    /\ pc = "fallback"
    /\ hi <= Len(unpaired_heads)
    /\ LET head == unpaired_heads[hi]
           k == FallbackChoice(head, available_assistants)
       IN  IF k = 0
           THEN /\ teams' = Append(teams, Team(head, NoCoach))
                /\ UNCHANGED available_assistants
           ELSE /\ teams' = Append(teams, Team(head, available_assistants[k]))
                /\ available_assistants' = Pop(available_assistants, k)
    /\ hi' = hi + 1
    /\ UNCHANGED <<players, assigned, unassigned, pc, ti, ci, gi, selVars, argVars, sibVars, scoreVars,
                   head_coaches, assistant_coaches, used_heads,
                   used_assistants, unpaired_heads>>

\* line 67: return teams
SeedReturn ==
    /\ pc = "fallback"
    /\ hi > Len(unpaired_heads)
    /\ pc' = "seeded"
    /\ UNCHANGED <<pipeVars, selVars, seedVars, argVars, sibVars,
                   scoreVars>>

NextSeed ==
    \/ SeedReciprocalPass
    \/ SeedFallbackHead
    \/ SeedReturn

SpecSeed == InitSeed /\ [][NextSeed]_vars

\* ======================================================================
\* The single-file variant (src/teambuilder_single.py), SpecSingle:
\* the sibling lists of parse_players_csv_reader, then
\* assign_players_to_teams with its family-grouping pass
\* ======================================================================

\* MIN_TEAM_SIZE (teambuilder_single.py:56)
MIN_TEAM_SIZE == 3

\* family-linkage values a row can carry; None is an absent or blank cell
ParentNames == {None, 1}
StreetAddresses == {None, 1}

\* Player of the single-file variant, with its family-linkage fields
FamilyPlayer(id, score, parent, street, sibs) ==
    [player_id |-> id, skill_score |-> score, sponsor_id |-> None,
     parent_name |-> parent, street_address |-> street, siblings |-> sibs]

\* The players as the row loop of the parser leaves them (lines 87-121),
\* scored, the sibling lists still empty.
FamilyPlayerMappings ==
    UNION {
        {m \in [1..n -> [player_id : 1..n, skill_score : SkillScores,
                         sponsor_id : {None}, parent_name : ParentNames,
                         street_address : StreetAddresses,
                         siblings : {<<>>}]] :
            \A i \in 1..n : m[i].player_id = i}
        : n \in 0..MaxPlayers}

\* Team shells: a head coach who can name player 1, no assistant.
SingleTeamShells ==
    LET heads == {Coach(1, a, None) : a \in {None} \cup HeadAssocIds}
    IN  SeqsUpTo({Team(h, NoCoach) : h \in heads}, MaxTeams)

\* the ids of s in increasing order, as a sequence
RECURSIVE SortedIds(_)
SortedIds(ids) ==
    IF ids = {} THEN <<>>
    ELSE LET m == CHOOSE x \in ids : \A y \in ids : x <= y
         IN  <<m>> \o SortedIds(ids \ {m})

\* key = (p.parent_name, p.street_address)
FamilyKey(p) == <<p.parent_name, p.street_address>>

\* a slip in the key of line 125: players are grouped on the parent name alone
SiblingsOfByParent(ps, i) ==
    SortedIds({j \in 1..Len(ps) :
                  j # i /\ ps[j].parent_name = ps[i].parent_name})

\* lines 123-133: the ids of the other players of ps[i]'s family group, in
\* dict order
SiblingsOf(ps, i) ==
    SortedIds({j \in 1..Len(ps) : j # i /\ FamilyKey(ps[j]) = FamilyKey(ps[i])})

InitSingle ==
    /\ teams \in SingleTeamShells
    /\ players \in FamilyPlayerMappings
    /\ assigned = {}
    /\ unassigned = <<>>
    /\ pc = "parse"
    /\ ti = 1
    /\ ci = 1
    /\ gi = 1
    /\ sel_player = NoPlayer
    /\ best_team = None
    /\ IdleSeed
    /\ min_team_size = MIN_TEAM_SIZE
    /\ target_team_size = MIN_TEAM_SIZE
    /\ IdleSiblings
    /\ IdleScoring

\* parse_players_csv_reader, lines 122-134: every player gets its siblings
IdentifySiblings ==
    /\ pc = "parse"
    /\ players' = [i \in 1..Len(players) |->
                      [players[i] EXCEPT !.siblings = SiblingsOf(players, i)]]
    /\ pc' = "coach"
    /\ UNCHANGED <<teams, assigned, unassigned, ti, ci, gi, selVars, seedVars,
                   argVars, sibVars, scoreVars>>

\* The family groups of lines 323-329 in dict order of their keys: the
\* group of the first player that has siblings, then the groups of s.
RECURSIVE FamilyGroupsFrom(_, _)
FamilyGroupsFrom(ps, i) ==
    IF i > Len(ps) THEN <<>>
    ELSE IF /\ ps[i].siblings # <<>>
            /\ \A j \in 1..(i - 1) :
                  ~(ps[j].siblings # <<>> /\ FamilyKey(ps[j]) = FamilyKey(ps[i]))
         THEN <<{j \in 1..Len(ps) :
                    ps[j].siblings # <<>> /\ FamilyKey(ps[j]) = FamilyKey(ps[i])}>>
              \o FamilyGroupsFrom(ps, i + 1)
         ELSE FamilyGroupsFrom(ps, i + 1)

\* a slip in lines 323-329: the key is left out, all players land in one
\* group
SiblingGroupsNoKey(ps) == IF Len(ps) > 1 THEN <<1..Len(ps)>> ELSE <<>>

\* line 332: the groups with more than one member
SiblingGroups(ps) ==
    SelectSeq(FamilyGroupsFrom(ps, 1), LAMBDA g : Cardinality(g) > 1)

\* find_best_team_for_player of the single-file variant (lines 312-315):
\* the teams min() can return, the random third key deciding the ties;
\* empty when min() raises ValueError on an empty list.
find_best_team_single(ts) ==
    {t \in 1..Len(ts) :
        \A u \in 1..Len(ts) :
            \/ ts[t].total_score < ts[u].total_score
            \/ /\ ts[t].total_score = ts[u].total_score
               /\ Len(ts[t].players) <= Len(ts[u].players)}

\* a slip in the loop of lines 341-342: only the first player is added
AddPlayersFirstOnly(ps, team) ==
    IF ps = <<>> THEN team ELSE add_player_to_team(ps[1], team)

\* add_player_to_team for each player of ps in turn (lines 341-342)
RECURSIVE AddPlayers(_, _)
AddPlayers(ps, team) ==
    IF ps = <<>> THEN team
    ELSE AddPlayers(Tail(ps), add_player_to_team(ps[1], team))

\* lines 322-332 of assign_sibling_groups_to_teams, entered when the
\* coach-affinity pass has returned
SiblingGroupsStart ==
    /\ pc = "coach"
    /\ ti > Len(teams)
    /\ sibling_groups' = SiblingGroups(players)
    /\ si' = 1
    /\ pc' = "siblings"
    /\ UNCHANGED <<pipeVars, selVars, seedVars, argVars, scoreVars>>

\* lines 335-343: one iteration of the loop over sibling_groups.  list(group)
\* of a set of ids can come in any order.
assign_sibling_groups_to_teams ==
    /\ pc = "siblings"
    /\ si <= Len(sibling_groups)
    /\ \E order \in Shuffles(SortedIds(sibling_groups[si])) :
        LET ids == SelectSeq(order, LAMBDA pid : pid \notin assigned)
            group_players == [k \in 1..Len(ids) |-> players[ids[k]]]
        IN  IF group_players = <<>>
            THEN /\ si' = si + 1
                 /\ UNCHANGED <<teams, assigned, pc, selVars>>
            ELSE /\ sel_player' = [player_id |-> group_players[1].player_id,
                                   skill_score |-> group_players[1].skill_score,
                                   sponsor_id |-> group_players[1].sponsor_id]
                 /\ IF find_best_team_single(teams) = {}
                    THEN \* min() of an empty list raises ValueError
                         /\ pc' = "raised"
                         /\ UNCHANGED <<teams, assigned, best_team, si>>
                    ELSE /\ \E b \in find_best_team_single(teams) :
                              /\ best_team' = b
                              /\ teams' = [teams EXCEPT
                                     ![b] = AddPlayers(group_players, @)]
                         /\ assigned' = assigned \cup sibling_groups[si]
                         /\ si' = si + 1
                         /\ pc' = pc
    /\ UNCHANGED <<players, unassigned, ti, ci, gi, seedVars, argVars,
                   sibling_groups, scoreVars>>

\* line 350: unassigned = [p for p in players.values() if p.player_id not
\* in assigned], once the family-grouping pass has returned
CollectUnassignedSingle ==
    /\ pc = "siblings"
    /\ si > Len(sibling_groups)
    /\ unassigned' = Unassigned(players, assigned)
    /\ pc' = "fill"
    /\ ti' = 1
    /\ UNCHANGED <<teams, players, assigned, ci, gi, selVars, seedVars,
                   argVars, sibVars, scoreVars>>

\* assign_remaining_players_by_skill of the single-file variant, lines
\* 308-310: one iteration
assign_remaining_players_single ==
    /\ pc = "greedy"
    /\ gi <= Len(unassigned)
    /\ IF find_best_team_single(teams) = {}
       THEN /\ pc' = "raised"
            /\ UNCHANGED <<teams, best_team, gi>>
       ELSE /\ \E b \in find_best_team_single(teams) :
                 /\ best_team' = b
                 /\ teams' = [teams EXCEPT
                                 ![b] = add_player_to_team(unassigned[gi], @)]
            /\ gi' = gi + 1
            /\ pc' = pc
    /\ UNCHANGED <<players, assigned, unassigned, ti, ci, sel_player,
                   seedVars, argVars, sibVars, scoreVars>>

NextSingle ==
    \/ IdentifySiblings
    \/ assign_coach_associated_players
    \/ SiblingGroupsStart
    \/ assign_sibling_groups_to_teams
    \/ CollectUnassignedSingle
    \/ fill_teams_to_minimum
    \/ FillNextTeam
    \/ SortRemaining
    \/ assign_remaining_players_single
    \/ Return

SpecSingle == InitSingle /\ [][NextSingle]_vars

\* ======================================================================
\* fill_teams_to_minimum called on its own (team_builder.py:87-93), on
\* teams that can already have members: SpecFill
\* ======================================================================

\* largest pool and largest min_team_size argument of SpecFill
MaxPool == 4
MaxMinSize == 3

\* the k-th player team t holds before the pass; the ids are above the ids
\* of the pool
PriorMember(t, k) == Player(MaxPool + MaxSize * (t - 1) + k, 1, None)

\* a team holding n players before the pass
TeamWithMembers(t, n) ==
    AddPlayers([k \in 1..n |-> PriorMember(t, k)],
               Team(Coach(1, None, None), NoCoach))

FillTeams ==
    UNION {{[t \in 1..n |-> TeamWithMembers(t, sizes[t])] :
               sizes \in [1..n -> 0..MaxSize]} : n \in 0..MaxTeams}

\* the unassigned pool: players 1..n
FillPools == {[i \in 1..n |-> Player(i, 1, None)] : n \in 0..MaxPool}

InitFill ==
    /\ teams \in FillTeams
    /\ unassigned \in FillPools
    /\ min_team_size \in 1..MaxMinSize
    /\ target_team_size = min_team_size
    /\ players = <<>>
    /\ assigned = {}
    /\ pc = "fill"
    /\ ti = 1
    /\ ci = 1
    /\ gi = 1
    /\ sel_player = NoPlayer
    /\ best_team = None
    /\ IdleSeed
    /\ IdleSiblings
    /\ IdleScoring

\* the for loop of line 89 is exhausted: fill_teams_to_minimum returns
FillReturn ==
    /\ pc = "fill"
    /\ ti > Len(teams)
    /\ pc' = "filled"
    /\ UNCHANGED <<pipeVars, selVars, seedVars, argVars, sibVars, scoreVars>>

NextFill ==
    \/ fill_teams_to_minimum
    \/ FillNextTeam
    \/ FillReturn

SpecFill == InitFill /\ [][NextFill]_vars

\* ======================================================================
\* assign_players_to_teams on larger player mappings and with the caller's
\* team-size argument: SpecWide
\* ======================================================================

\* largest player mapping of SpecWide
MaxWidePlayers == 6

\* the values cli.py passes as args.team_size (cli.py:40)
TargetTeamSizes == {2, 3}

\* unsponsored, scored players keyed by their own id
WidePlayerMappings ==
    UNION {{m \in [1..n -> [player_id : 1..n, skill_score : SkillScores,
                            sponsor_id : {None}]] :
               \A i \in 1..n : m[i].player_id = i}
           : n \in 0..MaxWidePlayers}

\* teams whose coaches name no player
WideTeamShells ==
    {[t \in 1..n |-> Team(Coach(1, None, None), NoCoach)] : n \in 1..MaxTeams}

\* assign_players_to_teams(teams, player_pool, args.team_size): line 112
\* passes min_team_size=2 whatever target_team_size is
InitWide ==
    /\ teams \in WideTeamShells
    /\ players \in WidePlayerMappings
    /\ target_team_size \in TargetTeamSizes
    /\ min_team_size = MinTeamSize
    /\ assigned = {}
    /\ unassigned = <<>>
    /\ pc = "coach"
    /\ ti = 1
    /\ ci = 1
    /\ gi = 1
    /\ sel_player = NoPlayer
    /\ best_team = None
    /\ IdleSeed
    /\ IdleSiblings
    /\ IdleScoring

SpecWide == InitWide /\ [][Next]_vars

\* ======================================================================
\* assign_players_to_teams on mappings large enough for the skill pass to
\* place several players: SpecStages
\* ======================================================================

\* largest player mapping of SpecStages
MaxStagePlayers == 4

\* unsponsored, scored players keyed by their own id
StagePlayerMappings ==
    UNION {
        {m \in [1..n -> [player_id : 1..n, skill_score : SkillScores,
                         sponsor_id : {None}]] :
            \A i \in 1..n : m[i].player_id = i}
        : n \in 0..MaxStagePlayers}

\* Team shells: the head can name player 1, the assistant player 2.
StageTeamShells ==
    LET heads == {Coach(1, a, None) : a \in {None} \cup HeadAssocIds}
        assistants == {NoCoach, Coach(2, 2, None)}
    IN  SeqsUpTo({Team(h, a) : h \in heads, a \in assistants}, MaxTeams)

InitStages ==
    /\ teams \in StageTeamShells
    /\ players \in StagePlayerMappings
    /\ assigned = {}
    /\ unassigned = <<>>
    /\ pc = "coach"
    /\ ti = 1
    /\ ci = 1
    /\ gi = 1
    /\ sel_player = NoPlayer
    /\ best_team = None
    /\ IdleSeed
    /\ DefaultArgs
    /\ IdleSiblings
    /\ IdleScoring

SpecStages == InitStages /\ [][Next]_vars

\* ======================================================================
\* add_player_to_team called over and over on one team that starts empty
\* (team_builder.py:69-75): SpecAdd
\* ======================================================================

\* the most calls of SpecAdd
MaxAdds == 4

\* the players a call can be handed
AddablePlayers ==
    [player_id : 1..MaxAdds, skill_score : SkillScores,
     sponsor_id : {None} \cup SponsorIds]

InitAdd ==
    /\ teams = <<Team(Coach(1, None, None), NoCoach)>>
    /\ players = <<>>
    /\ assigned = {}
    /\ unassigned = <<>>
    /\ pc = "add"
    /\ ti = 1
    /\ ci = 1
    /\ gi = 1
    /\ sel_player = NoPlayer
    /\ best_team = None
    /\ IdleSeed
    /\ DefaultArgs
    /\ IdleSiblings
    /\ IdleScoring

\* one call add_player_to_team(player, team); the k-th call adds player k
AddPlayer ==
    /\ pc = "add"
    /\ Len(teams[1].players) < MaxAdds
    /\ \E player \in AddablePlayers :
          /\ player.player_id = Len(teams[1].players) + 1
          /\ sel_player' = player
          /\ teams' = [teams EXCEPT ![1] = add_player_to_team(player, @)]
    /\ UNCHANGED <<players, assigned, unassigned, pc, ti, ci, gi, best_team,
                   seedVars, argVars, sibVars, scoreVars>>

NextAdd == AddPlayer

SpecAdd == InitAdd /\ [][NextAdd]_vars

\* ======================================================================
\* Scoring (scoring.py): build_normalization_context, then
\* calculate_player_skill_score for every player of the population, as
\* cli.py:32-34 runs them: SpecScore
\* ======================================================================

\* largest population of SpecScore
MaxScorePlayers == 2

\* AGE_WEIGHT, EXPERIENCE_WEIGHT, UNIFORM_SIZE_WEIGHT, EVALUATION_WEIGHT
\* (scoring.py:9-12), in hundredths
AGE_WEIGHT == 25
EXPERIENCE_WEIGHT == 35
UNIFORM_SIZE_WEIGHT == 15
EVALUATION_WEIGHT == 25

\* A Python float or None: an absent value, a finite number, or the NaN
\* float("nan") returns.
Absent == [cls |-> "none", val |-> 0]
Fin(v) == [cls |-> "fin", val |-> v]
NaN == [cls |-> "nan", val |-> 0]

\* the values a feature takes when present and finite
FeatureValues == {1, 2}

\* A player as the scoring functions see it: age and experience (None or a
\* number), the ordinal of uniform_size in UNIFORM_SIZES (absent when the
\* size is not in the list), and float(evaluation_score) (absent when the
\* raw string does not parse; "nan" parses to NaN).
ScorePlayers ==
    [age : {Absent} \cup {Fin(v) : v \in FeatureValues},
     experience : {Absent} \cup {Fin(v) : v \in FeatureValues},
     uniform_ordinal : {Absent} \cup {Fin(v) : v \in FeatureValues},
     eval_score : {Absent, NaN} \cup {Fin(v) : v \in FeatureValues}]

\* a < b on floats: False whenever one side is NaN
FloatLt(a, b) == a.cls = "fin" /\ b.cls = "fin" /\ a.val < b.val

\* a == b on floats: NaN equals nothing
FloatEq(a, b) == a.cls = "fin" /\ b.cls = "fin" /\ a.val = b.val

\* Python's min(values): the first item, replaced by each later item that
\* compares smaller
RECURSIVE PyMin(_, _)
PyMin(values, cur) ==
    IF values = <<>> THEN cur
    ELSE PyMin(Tail(values), IF FloatLt(values[1], cur) THEN values[1] ELSE cur)

\* Python's max(values): the first item, replaced by each later item that
\* compares larger
RECURSIVE PyMax(_, _)
PyMax(values, cur) ==
    IF values = <<>> THEN cur
    ELSE PyMax(Tail(values), IF FloatLt(cur, values[1]) THEN values[1] ELSE cur)

\* get_min_max (lines 40-43)
get_min_max(values) ==
    IF values = <<>> THEN [min |-> Absent, max |-> Absent]
    ELSE [min |-> PyMin(Tail(values), values[1]),
          max |-> PyMax(Tail(values), values[1])]

\* the values of one feature over the population, absent ones left out
\* (lines 28-38)
FeatureList(ps, feature) ==
    LET all == [k \in 1..Len(ps) |-> ps[k][feature]]
    IN  SelectSeq(all, LAMBDA v : v.cls # "none")

\* build_normalization_context (lines 18-50)
build_normalization_context(ps) ==
    [age |-> get_min_max(FeatureList(ps, "age")),
     experience |-> get_min_max(FeatureList(ps, "experience")),
     uniform_size |-> get_min_max(FeatureList(ps, "uniform_ordinal")),
     evaluation_score |-> get_min_max(FeatureList(ps, "eval_score"))]

\* a normalized value: absent, NaN, or the fraction num / den
NoNorm == [cls |-> "none", num |-> 0, den |-> 1]
NaNNorm == [cls |-> "nan", num |-> 0, den |-> 1]
Frac(n, d) == [cls |-> "fin", num |-> n, den |-> d]

\* norm (lines 58-63): any NaN operand makes the quotient NaN
norm(val, minmax) ==
    IF val.cls = "none" \/ minmax.min.cls = "none" \/ minmax.max.cls = "none"
    THEN NoNorm
    ELSE IF FloatEq(minmax.max, minmax.min) THEN Frac(1, 2)
    ELSE IF val.cls = "nan" \/ minmax.min.cls = "nan" \/ minmax.max.cls = "nan"
         THEN NaNNorm
         ELSE Frac(val.val - minmax.min.val, minmax.max.val - minmax.min.val)

RECURSIVE ProdDen(_)
ProdDen(present) ==
    IF present = <<>> THEN 1 ELSE present[1].v.den * ProdDen(Tail(present))

RECURSIVE SumWeights(_)
SumWeights(present) ==
    IF present = <<>> THEN 0 ELSE present[1].w + SumWeights(Tail(present))

\* sum(v * w for v, w in present), over the common denominator common
RECURSIVE SumWeighted(_, _)
SumWeighted(present, common) ==
    IF present = <<>> THEN 0
    ELSE present[1].w * present[1].v.num * (common \div present[1].v.den)
         + SumWeighted(Tail(present), common)

\* round(n / d, 4) in units of 0.0001, ties to the even unit
Round4(n, d) ==
    LET q == (10000 * n) \div d
        r == (10000 * n) % d
    IN  IF 2 * r > d \/ (2 * r = d /\ q % 2 = 1) THEN q + 1 ELSE q

\* a skill score: NaN, or units of 0.0001
NaNScore == [cls |-> "nan", units |-> 0]
Score(u) == [cls |-> "fin", units |-> u]

\* calculate_player_skill_score (lines 53-96)
calculate_player_skill_score(player, context) ==
    LET features ==
            <<[v |-> norm(player.age, context.age), w |-> AGE_WEIGHT],
              [v |-> norm(player.experience, context.experience),
               w |-> EXPERIENCE_WEIGHT],
              [v |-> norm(player.uniform_ordinal, context.uniform_size),
               w |-> UNIFORM_SIZE_WEIGHT],
              [v |-> norm(player.eval_score, context.evaluation_score),
               w |-> EVALUATION_WEIGHT]>>
        present == SelectSeq(features, LAMBDA f : f.v.cls # "none")
        common == ProdDen(present)
    IN  IF present = <<>> THEN Score(0)
        ELSE IF \E k \in 1..Len(present) : present[k].v.cls = "nan"
             THEN NaNScore
             ELSE Score(Round4(SumWeighted(present, common),
                               SumWeights(present) * common))

InitScore ==
    /\ score_players \in SeqsUpTo(ScorePlayers, MaxScorePlayers)
    /\ normalization_context = None
    /\ skill_score = <<>>
    /\ pc = "context"
    /\ teams = <<>>
    /\ players = <<>>
    /\ assigned = {}
    /\ unassigned = <<>>
    /\ ti = 1
    /\ ci = 1
    /\ gi = 1
    /\ sel_player = NoPlayer
    /\ best_team = None
    /\ IdleSeed
    /\ DefaultArgs
    /\ IdleSiblings

\* cli.py:32
BuildContext ==
    /\ pc = "context"
    /\ normalization_context' = build_normalization_context(score_players)
    /\ pc' = "scoring"
    /\ UNCHANGED <<pipeVars, selVars, seedVars, argVars, sibVars,
                   score_players, skill_score>>

\* cli.py:33-34, one iteration: the next player is scored
ScoreNextPlayer ==
    /\ pc = "scoring"
    /\ Len(skill_score) < Len(score_players)
    /\ skill_score' =
           Append(skill_score,
                  calculate_player_skill_score(
                      score_players[Len(skill_score) + 1],
                      normalization_context))
    /\ UNCHANGED <<pipeVars, pc, selVars, seedVars, argVars, sibVars,
                   score_players, normalization_context>>

\* every player of the population is scored
ScoreReturn ==
    /\ pc = "scoring"
    /\ Len(skill_score) = Len(score_players)
    /\ pc' = "scored"
    /\ UNCHANGED <<pipeVars, selVars, seedVars, argVars, sibVars, scoreVars>>

NextScore ==
    \/ BuildContext
    \/ ScoreNextPlayer
    \/ ScoreReturn

SpecScore == InitScore /\ [][NextScore]_vars

\* ======================================================================
\* Properties of assign_players_to_teams (checked under Spec)
\* ======================================================================

TeamIds == 1..Len(teams)

\* how often player p sits in the member list ps
RECURSIVE CountIn(_, _)
CountIn(ps, p) ==
    IF ps = <<>> THEN 0
    ELSE (IF ps[1] = p THEN 1 ELSE 0) + CountIn(Tail(ps), p)

RECURSIVE CountInTeams(_, _)
CountInTeams(ts, p) ==
    IF ts = <<>> THEN 0
    ELSE CountIn(ts[1].players, p) + CountInTeams(Tail(ts), p)

\* C1: when assign_players_to_teams has returned on at least one team,
\* every player of the mapping sits in exactly one member list, exactly once.
C1_EveryPlayerExactlyOnce ==
    (pc = "done" /\ teams # <<>>) =>
        \A i \in 1..Len(players) : CountInTeams(teams, players[i]) = 1

\* C1 witness: a finished run on three players in which the coach-affinity
\* pass, the fill pass and the greedy pass each placed one of them
C1_Witness ==
    /\ pc = "done"
    /\ Len(players) = 3
    /\ Cardinality(assigned) = 1
    /\ Len(unassigned) = 1
    /\ \E t \in TeamIds : Len(teams[t].players) = 3

\* C2: every team's total_score is the sum of the skill scores of the
\* players in its member list, after every add_player_to_team call.
C2_TotalScoreIsSum ==
    \A t \in TeamIds : teams[t].total_score = SumScores(teams[t].players)

\* C2 witness: a finished run with a team of three players of different
\* scores, the last one placed by the greedy pass
C2_Witness ==
    /\ pc = "done"
    /\ \E t \in TeamIds :
        /\ Len(teams[t].players) = 3
        /\ teams[t].total_score >= 4
        /\ best_team = t

\* C3: a team's sponsor_id, once set, is changed by no later
\* add_player_to_team call.
C3_SponsorNeverChanges ==
    [][\A t \in TeamIds :
          teams[t].sponsor_id # None =>
              teams'[t].sponsor_id = teams[t].sponsor_id]_vars

\* C4: no member list holds two players with distinct non-null sponsor ids.
C4_SponsorExclusive ==
    \A t \in TeamIds :
        \A i, j \in 1..Len(teams[t].players) :
            LET a == teams[t].players[i].sponsor_id
                b == teams[t].players[j].sponsor_id
            IN  (a # None /\ b # None) => a = b

\* C5: on an empty team list and a non-empty player mapping the run raises
\* no error (and no player is placed).
C5_NoTeamsNoError ==
    (teams = <<>> /\ players # <<>>) => pc # "raised"

\* ======================================================================
\* Properties of find_best_team_for_player (checked under SpecSel)
\* ======================================================================

\* (total_score, member count) of team a is lexicographically <= that of b
RankLeq(a, b) ==
    \/ a.total_score < b.total_score
    \/ /\ a.total_score = b.total_score
       /\ Len(a.players) <= Len(b.players)

AllCommitted == \A t \in TeamIds : teams[t].sponsor_id # None

\* C8: for a player without a sponsor id the selector returns a team whose
\* (total_score, member count) is lexicographically minimal among all teams
\* (hence the one team that attains the minimum, when there is only one).
C8_UnsponsoredGetsLexMin ==
    (pc = "selected" /\ sel_player.sponsor_id = None) =>
        \A t \in TeamIds : RankLeq(teams[best_team], teams[t])

\* C8 witness: the second of two teams is returned on the member-count
\* tie-break, the first one being sponsor-committed with the same total
C8_Witness ==
    /\ pc = "selected"
    /\ sel_player.sponsor_id = None
    /\ Len(teams) = 2
    /\ best_team = 2
    /\ teams[1].total_score = teams[2].total_score
    /\ Len(teams[2].players) < Len(teams[1].players)
    /\ teams[1].sponsor_id # None

\* C9: for a player with a sponsor id, when some team has no sponsor id the
\* selector returns a team with no sponsor id.
C9_SponsoredAvoidsCommitted ==
    (/\ pc = "selected"
     /\ sel_player.sponsor_id # None
     /\ ~AllCommitted) =>
        teams[best_team].sponsor_id = None

\* C9 witness: the uncommitted team is returned although the committed one
\* has a strictly lower total and fewer members
C9_Witness ==
    /\ pc = "selected"
    /\ sel_player.sponsor_id # None
    /\ Len(teams) = 2
    /\ teams[1].sponsor_id # None
    /\ teams[2].sponsor_id = None
    /\ teams[1].total_score < teams[2].total_score
    /\ Len(teams[1].players) < Len(teams[2].players)
    /\ best_team = 2

\* C10: for a player with a sponsor id, when every team has a sponsor id the
\* selector returns a team of lexicographically minimal (total_score, member
\* count) among all teams.
C10_FallbackRanksAllTeams ==
    (/\ pc = "selected"
     /\ sel_player.sponsor_id # None
     /\ AllCommitted) =>
        \A t \in TeamIds : RankLeq(teams[best_team], teams[t])

\* ======================================================================
\* Properties of seed_teams_with_coaches (checked under SpecSeed)
\* ======================================================================

HeadIdx == 1..Len(head_coaches)
AssistantIdx == 1..Len(assistant_coaches)

\* C6: the returned list has one team per head coach: as many teams as
\* heads, and every head is the head_coach of exactly one team.
C6_OneTeamPerHead ==
    pc = "seeded" =>
        /\ Len(teams) = Len(head_coaches)
        /\ \A h \in HeadIdx :
              Cardinality({t \in TeamIds :
                              teams[t].head_coach = head_coaches[h]}) = 1

\* C6 witness: two heads and two assistants, one head matched in the
\* reciprocal pass and the other in the fallback pass
C6_Witness ==
    /\ pc = "seeded"
    /\ Len(head_coaches) = 2
    /\ Len(assistant_coaches) = 2
    /\ Cardinality(used_heads) = 1
    /\ Len(unpaired_heads) = 1

\* C7: a head and an assistant that name each other are the head and the
\* assistant of one returned team.
C7_MutualPairsTeamUp ==
    pc = "seeded" =>
        \A h \in HeadIdx, a \in AssistantIdx :
            (/\ head_coaches[h].pair_id = assistant_coaches[a].coach_id
             /\ assistant_coaches[a].pair_id = head_coaches[h].coach_id) =>
                \E t \in TeamIds :
                    /\ teams[t].head_coach = head_coaches[h]
                    /\ teams[t].assistant_coach = assistant_coaches[a]

\* C7 witness: the second head and the first assistant name each other, the
\* first head asks for the same assistant without being asked back, and a
\* second assistant was there to be shuffled
C7_Witness ==
    /\ pc = "seeded"
    /\ Len(head_coaches) = 2
    /\ Len(assistant_coaches) = 2
    /\ head_coaches[1].pair_id = assistant_coaches[1].coach_id
    /\ head_coaches[2].pair_id = assistant_coaches[1].coach_id
    /\ assistant_coaches[1].pair_id = head_coaches[2].coach_id
    /\ teams[1].head_coach = head_coaches[2]
    /\ teams[1].assistant_coach = assistant_coaches[1]
    /\ teams[2].head_coach = head_coaches[1]

\* ======================================================================
\* Properties of the family-grouping pass (SpecSingle)
\* ======================================================================

\* the family-grouping pass has returned, no later pass has started
SiblingPassDone == pc = "siblings" /\ si > Len(sibling_groups)

\* the players some coach of a team names: the players the coach-affinity
\* pass has placed when the family-grouping pass starts
CoachPlaced ==
    {pid \in 1..Len(players) :
        \E t \in 1..Len(teams) :
            \/ teams[t].head_coach.associated_player_id = pid
            \/ /\ teams[t].assistant_coach # NoCoach
               /\ teams[t].assistant_coach.associated_player_id = pid}

\* the family groups of two or more: the players sharing one (parent
\* name, street address) key
FamilyGroups ==
    {g \in {{j \in 1..Len(players) : FamilyKey(players[j]) = FamilyKey(players[i])}
               : i \in 1..Len(players)} : Cardinality(g) >= 2}

\* player pid is a member of team t
OnTeam(t, pid) ==
    \E k \in 1..Len(teams[t].players) : teams[t].players[k].player_id = pid

\* the team player pid is on, None when on none
TeamOf(pid) ==
    IF \E t \in 1..Len(teams) : OnTeam(t, pid)
    THEN CHOOSE t \in 1..Len(teams) : OnTeam(t, pid)
    ELSE None

\* C11: when assign_sibling_groups_to_teams has returned, the members of
\* every family group of two or more that were unassigned when the pass
\* started are all on one and the same team.
C11_UnassignedSiblingsTogether ==
    SiblingPassDone =>
        \A g \in FamilyGroups :
            \E t \in 1..Len(teams) :
                \A pid \in g \ CoachPlaced : TeamOf(pid) = t

\* a family group of two, both unassigned when the pass started, has been
\* placed although another team was open
C11_Witness ==
    /\ pc = "siblings"
    /\ si > Len(sibling_groups)
    /\ Len(teams) = 2
    /\ \E g \in FamilyGroups :
          /\ Cardinality(g \ CoachPlaced) >= 2
          /\ \A pid \in g : TeamOf(pid) # None

\* C12: after the coach-affinity pass and the family-grouping pass every
\* family group of two or more has all of its members on the same team,
\* also when one of them was placed by the coach-affinity pass.
C12_AllSiblingsTogether ==
    SiblingPassDone =>
        \A g \in FamilyGroups :
            \E t \in 1..Len(teams) : \A pid \in g : TeamOf(pid) = t

\* C13: a player whose parent name and street address are both blank has an
\* empty sibling list after parsing, and the family-grouping pass never
\* places that player as part of a group.
C13_BlankKeyNotGrouped ==
    \A i \in 1..Len(players) :
        (players[i].parent_name = None /\ players[i].street_address = None) =>
            /\ (pc # "parse") => players[i].siblings = <<>>
            /\ SiblingPassDone => (i \in assigned => i \in CoachPlaced)

\* ======================================================================
\* Properties of fill_teams_to_minimum (SpecFill)
\* ======================================================================

\* the members team t had before the pass, and the members it took from
\* the pool
PriorCount(t) ==
    Cardinality({k \in 1..Len(teams[t].players) :
                    teams[t].players[k].player_id > MaxPool})
TakenCount(t) == Len(teams[t].players) - PriorCount(t)

RECURSIVE SumOver(_, _)
SumOver(f, n) == IF n = 0 THEN 0 ELSE f[n] + SumOver(f, n - 1)

\* the size of the pool when the pass started
InitialPool ==
    Len(unassigned) + SumOver([t \in 1..Len(teams) |-> TakenCount(t)], Len(teams))

\* the sum over the teams of max(0, min_team_size - size) at the start
TotalShortfall ==
    SumOver([t \in 1..Len(teams) |->
                IF PriorCount(t) < min_team_size
                THEN min_team_size - PriorCount(t) ELSE 0], Len(teams))

\* C14 as stated: with minimum team size 2, N teams and exactly 2N players
\* unassigned, the pass leaves every team with exactly 2 members and the
\* pool empty.
C14_ExactlyTwoEach ==
    (pc = "filled" /\ min_team_size = 2 /\ InitialPool = 2 * Len(teams)) =>
        /\ \A t \in 1..Len(teams) : Len(teams[t].players) = 2
        /\ unassigned = <<>>

\* C14 amended: with minimum team size 2, N teams that are all empty when
\* the pass starts and exactly 2N players unassigned, the pass leaves every
\* team with exactly 2 members and the pool empty.
C14_ExactlyTwoEachFromEmpty ==
    (/\ pc = "filled"
     /\ min_team_size = 2
     /\ InitialPool = 2 * Len(teams)
     /\ \A t \in 1..Len(teams) : PriorCount(t) = 0) =>
        /\ \A t \in 1..Len(teams) : Len(teams[t].players) = 2
        /\ unassigned = <<>>

\* two empty teams, four players, minimum 2: the pass has returned
C14_Witness ==
    /\ pc = "filled"
    /\ min_team_size = 2
    /\ Len(teams) = 2
    /\ InitialPool = 4
    /\ \A t \in 1..Len(teams) : PriorCount(t) = 0

\* C15: when the pool holds at least the total shortfall, the pass leaves
\* every team with at least min_team_size members and the pool smaller by
\* exactly the total shortfall.
C15_ShortfallCovered ==
    (pc = "filled" /\ InitialPool >= TotalShortfall) =>
        /\ \A t \in 1..Len(teams) : Len(teams[t].players) >= min_team_size
        /\ Len(unassigned) = InitialPool - TotalShortfall

\* two teams of different sizes, one already over the minimum, and a pool
\* larger than the shortfall
C15_Witness ==
    /\ pc = "filled"
    /\ Len(teams) = 2
    /\ \E t, u \in 1..Len(teams) :
          PriorCount(t) > min_team_size /\ PriorCount(u) < min_team_size
    /\ InitialPool > TotalShortfall
    /\ TotalShortfall > 0

\* C16: when the pool is too small to bring every team to min_team_size and
\* the teams start empty, after the pass any two teams' member counts
\* differ by at most 1.
C16_EvenWhenShort ==
    (/\ pc = "filled"
     /\ \A t \in 1..Len(teams) : PriorCount(t) = 0
     /\ InitialPool < min_team_size * Len(teams)) =>
        \A t, u \in 1..Len(teams) :
            Len(teams[t].players) - Len(teams[u].players) <= 1

\* ======================================================================
\* Properties of assign_players_to_teams: sponsors, balance, team size
\* ======================================================================

\* the sponsored players of a member list
SponsoredIn(ps) == {k \in 1..Len(ps) : ps[k].sponsor_id # None}

\* C17: when assign_players_to_teams has returned and the sponsored players
\* are no more than the teams, no team has more than one sponsored player
\* in its member list.
C17_OneSponsoredPerTeam ==
    (pc = "done" /\ Cardinality(SponsoredIn(players)) <= Len(teams)) =>
        \A t \in 1..Len(teams) :
            Cardinality(SponsoredIn(teams[t].players)) <= 1

\* C18: when assign_players_to_teams has returned and every team has
\* reached the minimum team size, no team has more than one player more
\* than any other team.
C18_SizesBalanced ==
    (pc = "done" /\ \A t \in 1..Len(teams) :
                        Len(teams[t].players) >= min_team_size) =>
        \A t, u \in 1..Len(teams) :
            Len(teams[t].players) - Len(teams[u].players) <= 1

\* the minimum-fill stage of assign_players_to_teams has returned
FillStageDone ==
    \/ pc = "fill" /\ ti > Len(teams)
    \/ pc \in {"greedy", "done"}

\* C19: the minimum-fill stage enforces the caller's team-size argument:
\* with at least that many players per team in the mapping, every team
\* leaves the stage with at least target_team_size members.
C19_FillUsesTeamSizeArgument ==
    (FillStageDone /\ Len(players) >= target_team_size * Len(teams)) =>
        \A t \in 1..Len(teams) : Len(teams[t].players) >= target_team_size

\* ======================================================================
\* Properties of the scoring functions (SpecScore)
\* ======================================================================

\* at least one feature of the player is present
HasFeature(p) ==
    \/ p.age.cls # "none"
    \/ p.experience.cls # "none"
    \/ p.uniform_ordinal.cls # "none"
    \/ p.eval_score.cls # "none"

\* C20: for every player of the population the context was built from,
\* calculate_player_skill_score returns a value in [0, 1] when at least one
\* feature is present, and 0 when none is.
C20_ScoreInUnitInterval ==
    \A i \in 1..Len(skill_score) :
        IF HasFeature(score_players[i])
        THEN /\ skill_score[i].cls = "fin"
             /\ skill_score[i].units >= 0
             /\ skill_score[i].units <= 10000
        ELSE skill_score[i] = Score(0)

\* ======================================================================
\* Properties of the sibling lists, of stage order and of the frames
\* ======================================================================

\* pid is in the sibling list of player i
ListsAsSibling(i, pid) ==
    \E k \in 1..Len(players[i].siblings) : players[i].siblings[k] = pid

\* parse_players_csv_reader has returned, no pass has started
ParseDone == pc = "coach" /\ ti = 1 /\ ci = 1

\* C21: when parse_players_csv_reader has returned the sibling relation is symmetric
\* and excludes self: B is in A's sibling list exactly when A is in B's,
\* exactly when A and B are different players with equal parent name and
\* equal street address.
C21_SiblingsSymmetric ==
    ParseDone =>
        \A a, b \in 1..Len(players) :
            /\ ListsAsSibling(a, b) <=> ListsAsSibling(b, a)
            /\ ListsAsSibling(a, b) <=>
                  /\ a # b
                  /\ players[a].parent_name = players[b].parent_name
                  /\ players[a].street_address = players[b].street_address

\* parsed: two players sharing a named parent and a street, a third one
\* matching them on one of the two only
C21_Witness ==
    /\ ParseDone
    /\ \E a, b, c \in 1..Len(players) :
          /\ a # b
          /\ players[a].parent_name # None
          /\ players[a].street_address # None
          /\ FamilyKey(players[a]) = FamilyKey(players[b])
          /\ players[c].parent_name = players[a].parent_name
          /\ players[c].street_address # players[a].street_address
          /\ ListsAsSibling(a, b)

\* player pid is a member of team t of ts
OnTeamIn(ts, t, pid) ==
    \E k \in 1..Len(ts[t].players) : ts[t].players[k].player_id = pid

\* the number of places player pid takes in the member lists of ts
PlacesOf(ts, pid) ==
    SumOver([t \in 1..Len(ts) |->
                Cardinality({k \in 1..Len(ts[t].players) :
                                ts[t].players[k].player_id = pid})], Len(ts))

\* C22: a player placed by an earlier stage is never reconsidered: every
\* step of assign_players_to_teams keeps each member list as it was and can
\* only append to it, and a player it appends was in no member list before
\* and is in exactly one after.
C22_PlacedStaysPlaced ==
    [][\A t \in 1..Len(teams) :
          LET old == teams[t].players
              new == teams'[t].players
          IN  /\ Len(new) >= Len(old)
              /\ SubSeq(new, 1, Len(old)) = old
              /\ \A k \in (Len(old) + 1)..Len(new) :
                    /\ \A u \in 1..Len(teams) :
                          ~OnTeamIn(teams, u, new[k].player_id)
                    /\ PlacesOf(teams', new[k].player_id) = 1]_vars

\* the run is over: one player was placed by the coach-affinity pass and
\* is on the naming coach's team, the fill pass and the skill pass have
\* each placed another one
C22_Witness ==
    /\ pc = "done"
    /\ Len(players) = 4
    /\ Len(unassigned) = 2
    /\ \E pid \in assigned : \E t \in 1..Len(teams) :
          /\ teams[t].head_coach.associated_player_id = pid
          /\ OnTeamIn(teams, t, pid)
          /\ Len(teams[t].players) >= 3

\* ======================================================================
\* Properties of the fallback pass of seed_teams_with_coaches (SpecSeed)
\* ======================================================================

\* some assistant of avail has, or has not, an associated player
SomeWithPlayer(avail) ==
    \E k \in 1..Len(avail) : avail[k].associated_player_id # None
SomeWithoutPlayer(avail) ==
    \E k \in 1..Len(avail) : avail[k].associated_player_id = None

\* C23: in the fallback pass, a head without an associated player gets an
\* assistant that has one whenever an unclaimed assistant has one, and a
\* head with an associated player gets an assistant that has none whenever
\* an unclaimed assistant has none, for every shuffle outcome.
C23_FallbackComplements ==
    [][(pc = "fallback" /\ hi' = hi + 1) =>
          LET head == unpaired_heads[hi]
              got == teams'[Len(teams')].assistant_coach
          IN  /\ (head.associated_player_id = None
                  /\ SomeWithPlayer(available_assistants)) =>
                     (got # NoCoach /\ got.associated_player_id # None)
              /\ (head.associated_player_id # None
                  /\ SomeWithoutPlayer(available_assistants)) =>
                     (got # NoCoach /\ got.associated_player_id = None)]_vars

\* the fallback pass has given a head without an associated player an
\* assistant that has one, and left an assistant that has none unclaimed
C23_Witness ==
    /\ pc = "fallback"
    /\ hi > 1
    /\ teams # <<>>
    /\ teams[Len(teams)].head_coach = unpaired_heads[hi - 1]
    /\ teams[Len(teams)].head_coach.associated_player_id = None
    /\ teams[Len(teams)].assistant_coach # NoCoach
    /\ teams[Len(teams)].assistant_coach.associated_player_id # None
    /\ SomeWithoutPlayer(available_assistants)

\* the teams of the list that have no assistant
SoloTeams == {t \in 1..Len(teams) : teams[t].assistant_coach = NoCoach}

\* C24: with H heads and A assistants seed_teams_with_coaches returns
\* exactly max(0, H - A) teams without an assistant, whatever the pair ids
\* and the shuffle outcome.
C24_SoloOnlyWhenNoneLeft ==
    (pc = "seeded") =>
        Cardinality(SoloTeams) =
            IF Len(head_coaches) > Len(assistant_coaches)
            THEN Len(head_coaches) - Len(assistant_coaches)
            ELSE 0

\* two heads and one assistant, the assistant matched in the reciprocal
\* pass: the other head is solo
C24_Witness ==
    /\ pc = "seeded"
    /\ Len(head_coaches) = 2
    /\ Len(assistant_coaches) = 1
    /\ used_assistants # {}
    /\ Cardinality(SoloTeams) = 1

\* C30: in the list seed_teams_with_coaches builds, no assistant coach is
\* the assistant of two different teams.
C30_AssistantOnOneTeam ==
    \A t, u \in 1..Len(teams) :
        (/\ t # u
         /\ teams[t].assistant_coach # NoCoach
         /\ teams[u].assistant_coach # NoCoach) =>
            teams[t].assistant_coach.coach_id # teams[u].assistant_coach.coach_id

\* returned: one assistant was matched in the reciprocal pass, another was
\* handed out by the fallback pass
C30_Witness ==
    /\ pc = "seeded"
    /\ Len(teams) = 2
    /\ Cardinality(used_assistants) = 1
    /\ SoloTeams = {}

\* ======================================================================
\* Properties of the single passes of assign_players_to_teams
\* ======================================================================

\* a coach of team t names player pid
NamedBy(t, pid) ==
    \/ teams[t].head_coach.associated_player_id = pid
    \/ /\ teams[t].assistant_coach # NoCoach
       /\ teams[t].assistant_coach.associated_player_id = pid

\* assign_coach_associated_players has returned, no later pass has started
CoachPassDone == pc = "coach" /\ ti > Len(teams)

\* C25: after assign_coach_associated_players on teams with no prior
\* assignments a player of the mapping is assigned exactly when a coach of
\* some team names it; it then sits on the first such team in team order
\* and on no other, and an unnamed player sits on no team.
C25_CoachPassPlacesNamed ==
    CoachPassDone =>
        \A pid \in 1..Len(players) :
            /\ pid \in assigned <=> \E t \in 1..Len(teams) : NamedBy(t, pid)
            /\ \A t \in 1..Len(teams) :
                  OnTeamIn(teams, t, pid) <=>
                      (NamedBy(t, pid) /\ \A u \in 1..(t - 1) : ~NamedBy(u, pid))
            /\ PlacesOf(teams, pid) <= 1

\* the pass has returned on two teams that both name player 1, and on a
\* coach naming an id that is not in the mapping
C25_Witness ==
    /\ CoachPassDone
    /\ Len(teams) = 2
    /\ Len(players) = 1
    /\ NamedBy(1, 1)
    /\ NamedBy(2, 1)
    /\ NamedBy(2, 2)
    /\ 1 \in assigned

\* C26: assign_remaining_players_by_skill places the remaining players in
\* non-increasing skill-score order, each on a team the selector returns
\* for the teams as they are at that moment.
C26_SkillPassOrder ==
    [][(pc = "greedy" /\ gi' = gi + 1) =>
          LET player == unassigned[gi]
          IN  /\ \A j \in 1..(gi - 1) :
                    unassigned[j].skill_score >= player.skill_score
              /\ \E b \in find_best_team_for_player(player, teams) :
                    /\ teams'[b].players = Append(teams[b].players, player)
                    /\ \A t \in 1..Len(teams) : t # b => teams'[t] = teams[t]]_vars

\* the pass has placed two players, the stronger one first although it
\* comes later in the mapping
C26_Witness ==
    /\ pc = "done"
    /\ Len(unassigned) >= 2
    /\ unassigned[1].skill_score > unassigned[2].skill_score
    /\ unassigned[1].player_id > unassigned[2].player_id
    /\ \E t \in 1..Len(teams) : OnTeamIn(teams, t, unassigned[2].player_id)

\* C27: fill_teams_to_minimum changes a team only while its member count is
\* below min_team_size and the pool is non-empty: no step changes a team
\* at or above min_team_size, and with an empty pool no step changes a team
\* or the pool.
C27_FillFrame ==
    [][/\ \A t \in 1..Len(teams) :
             Len(teams[t].players) >= min_team_size => teams'[t] = teams[t]
       /\ unassigned = <<>> => (teams' = teams /\ unassigned' = unassigned)
       /\ Len(teams') = Len(teams)]_vars

\* the pass has returned: a team that started at the minimum took nobody,
\* another team took players, and the pool is not used up
C27_Witness ==
    /\ pc = "filled"
    /\ unassigned # <<>>
    /\ \E t, u \in 1..Len(teams) :
          /\ PriorCount(t) >= min_team_size
          /\ TakenCount(t) = 0
          /\ TakenCount(u) > 0

\* the players without a co-located family member: no other player has
\* their (parent name, street address) key
Singletons ==
    {i \in 1..Len(players) :
        \A j \in 1..Len(players) :
            j # i => FamilyKey(players[j]) # FamilyKey(players[i])}

\* C28: assign_sibling_groups_to_teams leaves every player of a family
\* group of size 1 untouched: no step of the pass adds such a player to a
\* team or to the assigned set.
C28_SingletonsUntouched ==
    [][pc = "siblings" =>
          \A i \in Singletons :
              /\ i \in assigned' <=> i \in assigned
              /\ \A t \in 1..Len(teams) :
                    OnTeamIn(teams', t, i) <=> OnTeamIn(teams, t, i)]_vars

\* the pass has returned: it has placed a family group, and a player
\* without family is neither assigned nor on a team
C28_Witness ==
    /\ pc = "siblings"
    /\ si > Len(sibling_groups)
    /\ sibling_groups # <<>>
    /\ \E g \in FamilyGroups : \A pid \in g : TeamOf(pid) # None
    /\ \E i \in Singletons : i \notin assigned /\ TeamOf(i) = None

\* ======================================================================
\* Properties of add_player_to_team (SpecAdd)
\* ======================================================================

\* the sponsor id of the last player of ps that carries one, None when no
\* player of ps carries one
RECURSIVE LastSponsor(_)
LastSponsor(ps) ==
    IF ps = <<>> THEN None
    ELSE IF ps[Len(ps)].sponsor_id # None THEN ps[Len(ps)].sponsor_id
         ELSE LastSponsor(SubSeq(ps, 1, Len(ps) - 1))

\* C29: for a team that starts empty with no sponsor, after any sequence
\* of add_player_to_team calls the team's sponsor_id is the sponsor id of
\* the most recently added player that carries one, and is null exactly
\* when no member carries one.
C29_SponsorIsLatest ==
    \A t \in 1..Len(teams) :
        /\ teams[t].sponsor_id = LastSponsor(teams[t].players)
        /\ teams[t].sponsor_id = None <=> SponsoredIn(teams[t].players) = {}

\* three calls: a player of sponsor 1, a player of sponsor 2, then a player
\* without sponsor
C29_Witness ==
    /\ pc = "add"
    /\ Len(teams[1].players) = 3
    /\ teams[1].players[1].sponsor_id = 1
    /\ teams[1].players[2].sponsor_id = 2
    /\ teams[1].players[3].sponsor_id = None
    /\ teams[1].sponsor_id = 2

====
